---------------------------- MODULE Spec2Model ----------------------------
(***************************************************************************)
(* Model of the matchup segmenter of ESPN_to_JSON (src/txt_to_json4.py)    *)
(* and of its page fetcher (src/scrape2.py).                               *)
(*                                                                         *)
(* parse_play_by_play is modelled line by line: one action per call, one   *)
(* per iteration of the loop over the lines, one for the return.  Python   *)
(* lists and dicts are mutable objects reached through references, so the  *)
(* model keeps an explicit heap: copying (list(), copy.deepcopy) allocates *)
(* new objects, and every mutation writes through an address.              *)
(*                                                                         *)
(* A Python string is modelled as a sequence of tokens.  The tokens are    *)
(* the pieces the code's regular expression and its split() calls can tell *)
(* apart: a clock "mm:ss", a bare decimal "ss.s", the separator " - ", the *)
(* marker " enters the game for ", and any other piece of text.            *)
(***************************************************************************)
EXTENDS Integers, Sequences, FiniteSets

(***************************************************************************)
(* Bounds of the model.                                                    *)
(***************************************************************************)
\* longest input text, in lines
MaxLines == 3
\* number of calls of parse_play_by_play made by the process
MaxCalls == 2

(***************************************************************************)
(* Tokens and text.                                                        *)
(***************************************************************************)
\* a piece of text with no clock, separator or marker in it
W(str) == [k |-> "w", w |-> str, d |-> 0, m |-> 0, s |-> 0]
\* a clock \d{1,2}:\d{2}: d minute digits, m minutes, s seconds
T(digits, mins, secs) == [k |-> "mmss", w |-> "", d |-> digits, m |-> mins, s |-> secs]
\* a bare decimal \d{1,2}\.\d: d integer digits, m the value in tenths of a second
D(digits, tenths) == [k |-> "dec", w |-> "", d |-> digits, m |-> tenths, s |-> 0]
\* the text " - "
SEP == [k |-> "sep", w |-> "", d |-> 0, m |-> 0, s |-> 0]
\* the text " enters the game for "
MARK == [k |-> "mark", w |-> "", d |-> 0, m |-> 0, s |-> 0]

\* a player name, as the string the rosters hold
Name(str) == <<W(str)>>

Range(f) == {f[x] : x \in DOMAIN f}

\* x in lst
In(x, lst) == \E j \in 1..Len(lst) : lst[j] = x

\* positions of the tokens of a kind in a string
Positions(str, kind) == {j \in 1..Len(str) : str[j].k = kind}

Min(S) == CHOOSE x \in S : \A y \in S : x <= y

\* str.split(sep): the pieces between the occurrences of the separator
RECURSIVE split(_, _)
split(str, kind) ==
    IF Positions(str, kind) = {}
    THEN <<str>>
    ELSE LET j == Min(Positions(str, kind))
         IN  <<SubSeq(str, 1, j - 1)>> \o split(SubSeq(str, j + 1, Len(str)), kind)

\* lst.remove(x): drops the first occurrence of x
remove(lst, x) ==
    LET j == Min({n \in 1..Len(lst) : lst[n] = x})
    IN  SubSeq(lst, 1, j - 1) \o SubSeq(lst, j + 1, Len(lst))

\* play_by_play_text.strip().split("\n"): blank lines at both ends are
\* stripped, and an all-blank text still yields one empty line
RECURSIVE lstrip(_)
lstrip(txt) ==
    IF txt # <<>> /\ Head(txt) = <<>> THEN lstrip(Tail(txt)) ELSE txt

RECURSIVE rstrip(_)
rstrip(txt) ==
    IF txt # <<>> /\ txt[Len(txt)] = <<>>
    THEN rstrip(SubSeq(txt, 1, Len(txt) - 1))
    ELSE txt

split_lines(txt) ==
    LET stripped == rstrip(lstrip(txt))
    IN  IF stripped = <<>> THEN << <<>> >> ELSE stripped

(***************************************************************************)
(* The clock.                                                              *)
(***************************************************************************)
PeriodSeconds == 720
SecondsPerMinute == 60
\* last_time = "12:00"
StartClock == T(2, 12, 0)

\* re.search(r"(\d{1,2}:\d{2}|\d{1,2}\.\d)", line): is there a time token
has_time(line) == Positions(line, "mmss") \cup Positions(line, "dec") # {}

\* time_match.group(1): the leftmost time token
time_match(line) == line[Min(Positions(line, "mmss") \cup Positions(line, "dec"))]

\* a variant of the conversion that rounds to the nearest second
convert_rounding(time_str) ==
    IF time_str.k = "dec"
    THEN T(2, ((time_str.m + 5) \div 10) \div SecondsPerMinute,
              ((time_str.m + 5) \div 10) % SecondsPerMinute)
    ELSE time_str

\* a bare decimal becomes mm:ss, both parts floored and padded to two digits;
\* any other string is returned as it is
convert_to_mm_ss_format(time_str) ==
    IF time_str.k = "dec"
    THEN T(2, (time_str.m \div 10) \div SecondsPerMinute,
              (time_str.m \div 10) % SecondsPerMinute)
    ELSE time_str

\* minutes * 60 + seconds of an mm:ss string
Seconds(t) == t.m * SecondsPerMinute + t.s

\* a variant of the duration without the end-of-quarter adjustment
Elapsed_unadjusted(last, current) == Seconds(last) - Seconds(current)

\* the duration added for a step of the clock from last to current
Elapsed(last, current) ==
    LET duration == Seconds(last) - Seconds(current)
    IN  IF duration < 0 THEN duration + PeriodSeconds ELSE duration

(***************************************************************************)
(* The heap: list objects and matchup dicts, each reached by its address   *)
(* (its index).  A matchup dict holds the addresses of its three lists     *)
(* and its duration; the inner "players" dict, which is created with the   *)
(* matchup and never shared or rebound, is folded into it.                 *)
(***************************************************************************)
RosterSize == 5
team1_lineup == 1
team2_lineup == 2

Team1Start ==
    << Name("Luka Doncic"), Name("Kyrie Irving"), Name("Daniel Gafford"),
       Name("P.J. Washington"), Name("Derrick Jones Jr.") >>
Team2Start ==
    << Name("Jayson Tatum"), Name("Jaylen Brown"), Name("Jrue Holiday"),
       Name("Derrick White"), Name("Al Horford") >>

\* the heap once the module is imported: the two starting lineups
ModuleHeap == [lists |-> <<Team1Start, Team2Start>>, dicts |-> <<>>]

AllocList(h, v) == [h EXCEPT !.lists = Append(@, v)]
AllocDict(h, v) == [h EXCEPT !.dicts = Append(@, v)]

\* a variant of list() that hands back the list it was given
list_alias(h, a) == [heap |-> h, addr |-> a]

\* list(x): a new list with the elements of x
list_(h, a) == [heap |-> AllocList(h, h.lists[a]), addr |-> Len(h.lists) + 1]

\* copy.deepcopy(matchup): a new dict with new lists
deepcopy(h, a) ==
    LET src == h.dicts[a]
        n   == Len(h.lists)
        h1  == [h EXCEPT !.lists = @ \o << h.lists[src.team1], h.lists[src.team2],
                                           h.lists[src.events] >>]
    IN  [heap |-> AllocDict(h1, [team1 |-> n + 1, team2 |-> n + 2, events |-> n + 3,
                                 matchup_duration |-> src.matchup_duration]),
         addr |-> Len(h.dicts) + 1]

\* the value of the matchup at an address, as json.dump would write it
Matchup(h, a) ==
    [players |-> [team1 |-> h.lists[h.dicts[a].team1],
                  team2 |-> h.lists[h.dicts[a].team2]],
     events |-> h.lists[h.dicts[a].events],
     matchup_duration |-> h.dicts[a].matchup_duration]

\* the value of a list of matchups
Deref(h, ms) == [n \in 1..Len(ms) |-> Matchup(h, ms[n])]

(***************************************************************************)
(* The steps of parse_play_by_play.                                        *)
(***************************************************************************)
\* current_matchup = {"players": {...list(team1_lineup)...}, "events": [], ...}
initial_matchup(h) ==
    LET c1 == list_(h, team1_lineup)
        c2 == list_(c1.heap, team2_lineup)
        h3 == AllocList(c2.heap, <<>>)
        h4 == AllocDict(h3, [team1 |-> c1.addr, team2 |-> c2.addr,
                             events |-> Len(h3.lists), matchup_duration |-> 0])
    IN  [heap |-> h4, addr |-> Len(h4.dicts)]

\* a variant of finalize_matchup that appends whatever the events are
finalize_always(h, ms, cm) ==
    LET c == deepcopy(h, cm)
    IN  [heap |-> c.heap, matchups |-> Append(ms, c.addr)]

\* a variant of finalize_matchup that puts the newest matchup first
finalize_in_front(h, ms, cm) ==
    IF h.lists[h.dicts[cm].events] # <<>>
    THEN LET c == deepcopy(h, cm)
         IN  [heap |-> c.heap, matchups |-> <<c.addr>> \o ms]
    ELSE [heap |-> h, matchups |-> ms]

\* finalize_matchup(): a deep copy of the open matchup is appended, unless
\* it has no events
finalize_matchup(h, ms, cm) ==
    IF h.lists[h.dicts[cm].events] # <<>>
    THEN LET c == deepcopy(h, cm)
         IN  [heap |-> c.heap, matchups |-> Append(ms, c.addr)]
    ELSE [heap |-> h, matchups |-> ms]

\* add_time_to_duration(current_time)
add_time_to_duration(h, cm, last, current_time) ==
    LET current == convert_to_mm_ss_format(current_time)
    IN  [heap |-> [h EXCEPT !.dicts[cm].matchup_duration = @ + Elapsed(last, current)],
         last_time |-> current]

\* "enters the game for" in line
is_substitution(line) == Positions(line, "mark") # {}

\* the new current_matchup: copies of the rosters, the line as only event
new_matchup(h, cm, line) ==
    LET c1 == list_(h, h.dicts[cm].team1)
        c2 == list_(c1.heap, h.dicts[cm].team2)
        h3 == AllocList(c2.heap, <<line>>)
        h4 == AllocDict(h3, [team1 |-> c1.addr, team2 |-> c2.addr,
                             events |-> Len(h3.lists), matchup_duration |-> 0])
    IN  [heap |-> h4, addr |-> Len(h4.dicts)]

\* parts = line.split(" enters the game for ")
parts(line) == split(line, "mark")
\* parts[0].split(" - "), whose element [1] is the entering player
prefix_pieces(line) == split(parts(line)[1], "sep")
\* either index is out of range
raises_IndexError(line) == Len(prefix_pieces(line)) < 2 \/ Len(parts(line)) < 2
entering_player(line) == prefix_pieces(line)[2]
exiting_player(line) == parts(line)[2]

\* a variant of the roster update that forgets to remove the exiting player
substitute_without_remove(roster, entering, exiting) == Append(roster, entering)

\* roster.remove(exiting_player); roster.append(entering_player)
substitute(roster, entering, exiting) == Append(remove(roster, exiting), entering)

\* for team in ["team1", "team2"]: the first side that holds the exiting
\* player is updated, and no other
process_substitution(h, cm, entering, exiting) ==
    LET t1 == h.dicts[cm].team1
        t2 == h.dicts[cm].team2
    IN  IF In(exiting, h.lists[t1])
        THEN [h EXCEPT !.lists[t1] = substitute(@, entering, exiting)]
        ELSE IF In(exiting, h.lists[t2])
             THEN [h EXCEPT !.lists[t2] = substitute(@, entering, exiting)]
             ELSE h

\* current_matchup["events"].append(line)
append_event(h, cm, line) == [h EXCEPT !.lists[h.dicts[cm].events] = Append(@, line)]

\* a variant of the loop body that reads the clock after the substitution,
\* so that the elapsed time goes to the matchup the line opens
loop_body_time_last(h, ms, cm, last, line) ==
    IF ~is_substitution(line)
    THEN LET timed == IF has_time(line)
                      THEN add_time_to_duration(h, cm, last, time_match(line))
                      ELSE [heap |-> h, last_time |-> last]
         IN  [heap |-> append_event(timed.heap, cm, line), matchups |-> ms,
              current_matchup |-> cm, last_time |-> timed.last_time, raised |-> FALSE]
    ELSE LET fin   == finalize_matchup(h, ms, cm)
             open  == new_matchup(fin.heap, cm, line)
             timed == IF has_time(line)
                      THEN add_time_to_duration(open.heap, open.addr, last,
                                                time_match(line))
                      ELSE [heap |-> open.heap, last_time |-> last]
         IN  IF raises_IndexError(line)
             THEN [heap |-> timed.heap, matchups |-> fin.matchups,
                   current_matchup |-> open.addr, last_time |-> timed.last_time,
                   raised |-> TRUE]
             ELSE LET h2 == process_substitution(timed.heap, open.addr,
                                 entering_player(line), exiting_player(line))
                  IN  [heap |-> append_event(h2, open.addr, line),
                       matchups |-> fin.matchups, current_matchup |-> open.addr,
                       last_time |-> timed.last_time, raised |-> FALSE]

\* one iteration of the loop over the lines
loop_body(h, ms, cm, last, line) ==
    LET timed == IF has_time(line)
                 THEN add_time_to_duration(h, cm, last, time_match(line))
                 ELSE [heap |-> h, last_time |-> last]
    IN  IF ~is_substitution(line)
        THEN [heap |-> append_event(timed.heap, cm, line), matchups |-> ms,
              current_matchup |-> cm, last_time |-> timed.last_time, raised |-> FALSE]
        ELSE LET fin  == finalize_matchup(timed.heap, ms, cm)
                 open == new_matchup(fin.heap, cm, line)
             IN  IF raises_IndexError(line)
                 THEN [heap |-> open.heap, matchups |-> fin.matchups,
                       current_matchup |-> open.addr, last_time |-> timed.last_time,
                       raised |-> TRUE]
                 ELSE LET h2 == process_substitution(open.heap, open.addr,
                                     entering_player(line), exiting_player(line))
                      IN  [heap |-> append_event(h2, open.addr, line),
                           matchups |-> fin.matchups, current_matchup |-> open.addr,
                           last_time |-> timed.last_time, raised |-> FALSE]

(***************************************************************************)
(* The input lines the model draws its texts from.                         *)
(***************************************************************************)
Blank == <<>>
TipOff == <<T(2, 12, 0), SEP, W("Tip-off")>>
Miss == <<T(2, 10, 30), SEP, W("Luka Doncic misses 3-pt shot")>>
\* the entering player is on the court already
SubOnCourt == <<T(1, 9, 15), SEP, W("Luka Doncic"), MARK, W("Kyrie Irving")>>
SubTeam2 == <<T(1, 5, 43), SEP, W("Sam Hauser"), MARK, W("Jayson Tatum")>>
SubForLuka == <<T(1, 2, 0), SEP, W("Dante Exum"), MARK, W("Luka Doncic")>>
\* the exiting player is in no roster
SubUnknown == <<T(1, 3, 0), SEP, W("Dante Exum"), MARK, W("Nobody")>>
\* no " - " before the entering player
SubNoPrefix == <<W("Dante Exum"), MARK, W("Nobody")>>
\* a clock far above the twelve minutes of a period
LateClock == <<T(2, 30, 0), SEP, W("Overtime")>>

SubstitutionLines ==
    { Blank, TipOff, Miss, SubOnCourt, SubTeam2, SubForLuka, SubUnknown,
      SubNoPrefix, LateClock }

\* lines for the clock: the end of a period, the start of the next, bare
\* decimals below and above a minute
EndOfPeriod == <<T(1, 0, 5), SEP, W("Jayson Tatum makes 2-pt shot")>>
NextPeriod == <<T(2, 11, 58), SEP, W("Jaylen Brown misses 3-pt shot")>>
LastSeconds == <<D(1, 47), SEP, W("Al Horford defensive rebound")>>
LongDecimal == <<D(2, 615), SEP, W("Jrue Holiday bad pass")>>
ClockLines == { EndOfPeriod, NextPeriod, LastSeconds, LongDecimal, TipOff }

\* the largest bare decimal \d{1,2}\.\d, in tenths of a second: 99.9
MaxTenths == 999
\* the largest one-digit bare decimal, in tenths of a second: 9.9
MaxOneDigitTenths == 99
\* every bare decimal the regular expression accepts
DecimalTokens ==
    {D(1, n) : n \in 0..MaxOneDigitTenths} \cup {D(2, n) : n \in 0..MaxTenths}
\* a line that starts with a given time token
Timed(tok) == <<tok, SEP, W("End of period")>>

\* the four lines of the end-to-end scenario
Score == <<T(1, 8, 0), SEP, W("Jayson Tatum makes 2-pt shot")>>
Scenario == <<TipOff, Miss, SubOnCourt, Score>>
\* the texts made of the scenario's lines, no longer than the scenario
ScenarioTexts == UNION {[1..n -> Range(Scenario)] : n \in 0..Len(Scenario)}

\* the texts of at most MaxLines lines over a set of lines
Texts(catalogue) == UNION {[1..n -> catalogue] : n \in 0..MaxLines}

(***************************************************************************)
(* The fetcher (src/scrape2.py): what the page shows and how a table is    *)
(* read.                                                                   *)
(***************************************************************************)
\* most rows of a period's table
MaxRows == 3

\* a row of the table: its two cells, or a row whose cells cannot be found
TipOffRow == [readable |-> TRUE, time |-> T(2, 12, 0), text |-> "Tip-off"]
MissRow == [readable |-> TRUE, time |-> T(2, 10, 30),
            text |-> "Luka Doncic misses 3-pt shot"]
BrokenRow == [readable |-> FALSE, time |-> T(2, 12, 0), text |-> ""]
Rows == {TipOffRow, MissRow, BrokenRow}
\* the tables a period tab may show
Tables == UNION {[1..n -> Rows] : n \in 0..MaxRows}

\* the buttons "nav ul li button" may find
ButtonLists ==
    { <<>>, <<"1st", "2nd">>, <<"1st", "Box Score", "2nd", "3rd">> }
\* tab.text in ['1st', '2nd', '3rd', '4th']
is_quarter_tab(label) == label \in {"1st", "2nd", "3rd", "4th"}
\* the quarter tabs among the buttons, from the second on
later_quarter_tabs(buttons) ==
    LET tabs == SelectSeq(buttons, is_quarter_tab)
    IN  IF tabs = <<>> THEN <<>> ELSE Tail(tabs)

\* f"{time_cell} - {text_cell}"
format_row(row) == <<row.time, SEP, W(row.text)>>

\* extract_espn_data: the try encloses the loop over the rows, so the first
\* row that cannot be read ends the loop and what was read so far is returned
RECURSIVE extract_espn_data(_)
extract_espn_data(rows) ==
    IF rows = <<>> \/ ~Head(rows).readable THEN <<>>
    ELSE <<format_row(Head(rows))>> \o extract_espn_data(Tail(rows))

(***************************************************************************)
(* State.                                                                  *)
(***************************************************************************)
VARIABLES
    fpc,                \* where the fetcher's main() stands
    session,            \* the browser session: "none", "open" or "closed"
    play_by_play_data,  \* the lines fetched so far
    quarter_tabs,       \* the quarter tabs still to visit
    table,              \* the rows of the table read last
    failure,            \* what went wrong, "none" when nothing did
    fetched,            \* what fetch_page_with_selenium returned
    reported            \* whether the failure was printed

fvars == <<fpc, session, play_by_play_data, quarter_tabs, table, failure, fetched,
           reported>>

\* the fetcher before its main() runs
FetcherIdle ==
    /\ fpc = "idle"
    /\ session = "none"
    /\ play_by_play_data = <<>>
    /\ quarter_tabs = <<>>
    /\ table = <<>>
    /\ failure = "none"
    /\ fetched = "nothing"
    /\ reported = FALSE

VARIABLES
    text,             \* the play-by-play text handed to every call
    heap,             \* the list and dict objects
    matchups,         \* the list of finalized matchups (addresses)
    current_matchup,  \* the open matchup (address)
    last_time,        \* the clock
    lines,            \* the lines of the text
    i,                \* how many lines the loop has processed
    pc,               \* "idle", "loop", "returned" or "raised"
    results           \* what the calls so far returned

svars == <<text, heap, matchups, current_matchup, last_time, lines, i, pc, results>>

vars == <<svars, fvars>>

InitWith(catalogue) ==
    /\ text \in Texts(catalogue)
    /\ heap = ModuleHeap
    /\ matchups = <<>>
    /\ current_matchup = 0
    /\ last_time = StartClock
    /\ lines = <<>>
    /\ i = 0
    /\ pc = "idle"
    /\ results = <<>>
    /\ FetcherIdle

Init == InitWith(SubstitutionLines)

\* parse_play_by_play(text) is called: lines 24-34
Call ==
    /\ pc \in {"idle", "returned", "raised"}
    /\ Len(results) < MaxCalls
    /\ LET open == initial_matchup(heap)
       IN  /\ heap' = open.heap
           /\ current_matchup' = open.addr
    /\ matchups' = <<>>
    /\ last_time' = StartClock
    /\ lines' = split_lines(text)
    /\ i' = 0
    /\ pc' = "loop"
    /\ UNCHANGED <<text, results>>
    /\ UNCHANGED fvars

\* one line of the text is processed: lines 78-109
ProcessLine ==
    /\ pc = "loop"
    /\ i < Len(lines)
    /\ LET r == loop_body(heap, matchups, current_matchup, last_time, lines[i + 1])
       IN  /\ heap' = r.heap
           /\ matchups' = r.matchups
           /\ current_matchup' = r.current_matchup
           /\ last_time' = r.last_time
           /\ pc' = IF r.raised THEN "raised" ELSE "loop"
           /\ results' = IF r.raised
                         THEN Append(results, [raised |-> TRUE, value |-> <<>>])
                         ELSE results
    /\ i' = i + 1
    /\ UNCHANGED <<text, lines>>
    /\ UNCHANGED fvars

\* the last matchup is finalized and the list returned: lines 111-114
Return ==
    /\ pc = "loop"
    /\ i = Len(lines)
    /\ LET fin == finalize_matchup(heap, matchups, current_matchup)
       IN  /\ heap' = fin.heap
           /\ matchups' = fin.matchups
           /\ results' = Append(results, [raised |-> FALSE, value |-> fin.matchups])
    /\ pc' = "returned"
    /\ UNCHANGED <<text, current_matchup, last_time, lines, i>>
    /\ UNCHANGED fvars

Next == Call \/ ProcessLine \/ Return

Spec == Init /\ [][Next]_vars

\* the clock alone: texts over the clock lines, and every bare decimal on a
\* line of its own
InitClock ==
    /\ text \in Texts(ClockLines) \cup {<<Timed(tok)>> : tok \in DecimalTokens}
    /\ heap = ModuleHeap
    /\ matchups = <<>>
    /\ current_matchup = 0
    /\ last_time = StartClock
    /\ lines = <<>>
    /\ i = 0
    /\ pc = "idle"
    /\ results = <<>>
    /\ FetcherIdle

SpecClock == InitClock /\ [][Next]_vars

\* the end-to-end scenario and the other texts of its lines
InitScenario ==
    /\ text \in ScenarioTexts
    /\ heap = ModuleHeap
    /\ matchups = <<>>
    /\ current_matchup = 0
    /\ last_time = StartClock
    /\ lines = <<>>
    /\ i = 0
    /\ pc = "idle"
    /\ results = <<>>
    /\ FetcherIdle

SpecScenario == InitScenario /\ [][Next]_vars

(***************************************************************************)
(* The fetcher's main(): fetch_page_with_selenium and the report.  Every   *)
(* call to the browser either returns or raises; the two calls that block  *)
(* (the wait for the table, the sleep after a click) may also be cut short *)
(* by KeyboardInterrupt, which "except Exception" does not catch.          *)
(***************************************************************************)
\* the segmenter is not running
SegmenterIdle ==
    /\ text = <<>>
    /\ heap = ModuleHeap
    /\ matchups = <<>>
    /\ current_matchup = 0
    /\ last_time = StartClock
    /\ lines = <<>>
    /\ i = 0
    /\ pc = "idle"
    /\ results = <<>>

InitFetch ==
    /\ SegmenterIdle
    /\ fpc = "setup"
    /\ session = "none"
    /\ play_by_play_data = <<>>
    /\ quarter_tabs = <<>>
    /\ table = <<>>
    /\ failure = "none"
    /\ fetched = "nothing"
    /\ reported = FALSE

\* lines 21-24: the driver is installed and the browser started, outside the
\* try; an exception here leaves fetch_page_with_selenium and main()
Setup ==
    /\ fpc = "setup"
    /\ \E ok \in BOOLEAN :
          IF ok
          THEN /\ session' = "open"
               /\ fpc' = "get"
               /\ UNCHANGED failure
          ELSE /\ failure' = "setup"
               /\ fpc' = "escaped"
               /\ UNCHANGED session
    /\ UNCHANGED <<svars, play_by_play_data, quarter_tabs, table, fetched, reported>>

\* line 27: driver.get(url)
Navigate ==
    /\ fpc = "get"
    /\ \E ok \in BOOLEAN :
          IF ok
          THEN fpc' = "wait" /\ UNCHANGED failure
          ELSE fpc' = "handler" /\ failure' = "navigation"
    /\ UNCHANGED <<svars, session, play_by_play_data, quarter_tabs, table, fetched,
                   reported>>

\* lines 35-37: WebDriverWait(driver, 10).until(...)
WaitForTable ==
    /\ fpc = "wait"
    /\ \E outcome \in {"present", "timeout", "interrupt"} :
          /\ fpc' = CASE outcome = "present" -> "first_table"
                      [] outcome = "timeout" -> "handler"
                      [] outcome = "interrupt" -> "escaped"
          /\ failure' = IF outcome = "present" THEN failure ELSE outcome
    /\ UNCHANGED <<svars, session, play_by_play_data, quarter_tabs, table, fetched,
                   reported>>

\* lines 39-43 and 55-56: extract_espn_data reads the table the page shows
\* and its lines are added; find_elements failing inside it yields no lines
ExtractTable ==
    /\ fpc \in {"first_table", "tab_table"}
    /\ \E shown \in Tables, found \in BOOLEAN :
          /\ table' = IF found THEN shown ELSE <<>>
          /\ play_by_play_data' = play_by_play_data \o extract_espn_data(table')
    /\ fpc' = IF fpc = "first_table" THEN "tabs"
              ELSE IF quarter_tabs = <<>> THEN "quit" ELSE "click"
    /\ UNCHANGED <<svars, session, quarter_tabs, failure, fetched, reported>>

\* lines 46-47: the quarter tabs are located
FindTabs ==
    /\ fpc = "tabs"
    /\ \/ \E buttons \in ButtonLists :
             /\ quarter_tabs' = later_quarter_tabs(buttons)
             /\ fpc' = IF quarter_tabs' = <<>> THEN "quit" ELSE "click"
             /\ UNCHANGED failure
       \/ /\ fpc' = "handler"
          /\ failure' = "tabs"
          /\ UNCHANGED quarter_tabs
    /\ UNCHANGED <<svars, session, play_by_play_data, table, fetched, reported>>

\* lines 50-52: the next tab is clicked and the page given two seconds
ClickTab ==
    /\ fpc = "click"
    /\ \E outcome \in {"clicked", "click", "interrupt"} :
          /\ fpc' = CASE outcome = "clicked" -> "tab_table"
                      [] outcome = "click" -> "handler"
                      [] outcome = "interrupt" -> "escaped"
          /\ failure' = IF outcome = "clicked" THEN failure ELSE outcome
    /\ quarter_tabs' = Tail(quarter_tabs)
    /\ UNCHANGED <<svars, session, play_by_play_data, table, fetched, reported>>

\* lines 58-59: driver.quit(); return play_by_play_data
QuitAndReturn ==
    /\ fpc = "quit"
    /\ session' = "closed"
    /\ fetched' = "list"
    /\ fpc' = "main"
    /\ UNCHANGED <<svars, play_by_play_data, quarter_tabs, table, failure, reported>>

\* lines 61-64: except Exception: driver.quit(); print(...); return None
Handler ==
    /\ fpc = "handler"
    /\ session' = "closed"
    /\ reported' = TRUE
    /\ fetched' = "None"
    /\ play_by_play_data' = <<>>
    /\ fpc' = "main"
    /\ UNCHANGED <<svars, quarter_tabs, table, failure>>

\* lines 121-125: main() saves a non-empty list and reports anything else
MainReport ==
    /\ fpc = "main"
    /\ reported' = (reported \/ fetched = "None" \/ play_by_play_data = <<>>)
    /\ fpc' = "done"
    /\ UNCHANGED <<svars, session, play_by_play_data, quarter_tabs, table, failure,
                   fetched>>

NextFetch ==
    Setup \/ Navigate \/ WaitForTable \/ ExtractTable \/ FindTabs \/ ClickTab
        \/ QuitAndReturn \/ Handler \/ MainReport

SpecFetch == InitFetch /\ [][NextFetch]_vars

(***************************************************************************)
(* What the claims speak of.                                               *)
(***************************************************************************)
\* the matchups that were appended to an output list, in this call or in an
\* earlier one
Finalized == Range(matchups) \cup UNION {Range(results[n].value) : n \in DOMAIN results}

\* the finalized matchups and the open one
AllMatchups == Finalized \cup (IF pc = "idle" THEN {} ELSE {current_matchup})

Team1Of(a) == Matchup(heap, a).players.team1
Team2Of(a) == Matchup(heap, a).players.team2
EventsOf(a) == Matchup(heap, a).events
DurationOf(a) == Matchup(heap, a).matchup_duration

\* a step of the loop is about to process this line
Processing(line) == pc = "loop" /\ i < Len(lines) /\ lines[i + 1] = line

NoDuplicates(lst) == Cardinality(Range(lst)) = Len(lst)

RECURSIVE SumDurations(_, _)
SumDurations(h, ms) ==
    IF ms = <<>> THEN 0
    ELSE Matchup(h, Head(ms)).matchup_duration + SumDurations(h, Tail(ms))

\* the clock values of the timestamped lines, in order, in seconds
RECURSIVE Timestamps(_)
Timestamps(ls) ==
    IF ls = <<>> THEN <<>>
    ELSE (IF has_time(Head(ls))
          THEN <<Seconds(convert_to_mm_ss_format(time_match(Head(ls))))>>
          ELSE <<>>) \o Timestamps(Tail(ls))

\* how often a timestamp is greater than the timestamp before it
Rollovers(ts) == Cardinality({n \in 1..(Len(ts) - 1) : ts[n + 1] > ts[n]})

(***************************************************************************)
(* C1.  A substitution line appears exactly once in the events of the      *)
(* matchup it opens, as the first entry.  A matchup is opened by at most   *)
(* one substitution line and holds no other, so this says: no entry after  *)
(* the first is a substitution line.  The code appends the line a second   *)
(* time (line 109), so this fails.                                         *)
(***************************************************************************)
C1_SubstitutionLineOnce ==
    \A a \in AllMatchups :
        \A n \in 2..Len(EventsOf(a)) : ~is_substitution(EventsOf(a)[n])

(***************************************************************************)
(* C2.  The live roster and every matchup of the output have exactly five  *)
(* names a side, whatever the lines were.                                  *)
(***************************************************************************)
C2_RostersHaveFive ==
    \A a \in AllMatchups :
        Len(Team1Of(a)) = RosterSize /\ Len(Team2Of(a)) = RosterSize

\* a call returned after a substitution changed a roster and another named
\* an exiting player nobody has
C2_Witness ==
    /\ pc = "returned"
    /\ \E a \in Range(matchups) : Team2Of(a) # Team2Start
    /\ \E n \in 1..Len(lines) : lines[n] = SubUnknown

(***************************************************************************)
(* C3.  No roster, live or in the output, holds a name twice.  The code    *)
(* appends the entering player without looking whether he is on the court, *)
(* so this fails.                                                          *)
(***************************************************************************)
C3_NoDuplicateNames ==
    \A a \in AllMatchups : NoDuplicates(Team1Of(a)) /\ NoDuplicates(Team2Of(a))

(***************************************************************************)
(* C4.  The duration of the open matchup and of every output matchup is    *)
(* never negative.  A timestamp more than 720 seconds above the clock      *)
(* leaves the difference negative after the one correction, so this fails. *)
(***************************************************************************)
C4_DurationNonNegative ==
    \A a \in AllMatchups : DurationOf(a) >= 0

(***************************************************************************)
(* C5.  The durations of the output sum to at most 720 times the number of *)
(* periods, one plus the number of rollovers between consecutive           *)
(* timestamped lines.  The first timestamp is measured against 12:00 and   *)
(* corrected like a rollover when it is greater, so this fails.            *)
(***************************************************************************)
C5_DurationWithinPeriods ==
    pc = "returned" =>
        SumDurations(heap, matchups)
            <= PeriodSeconds * (1 + Rollovers(Timestamps(lines)))

(***************************************************************************)
(* C6.  A matchup that was appended to an output list never changes, and   *)
(* the list only grows at its end: every step leaves the value of every    *)
(* finalized matchup as it was and keeps the list so far as a prefix.      *)
(***************************************************************************)
C6_FinalizedNeverChange ==
    [][ /\ \A a \in Finalized : Matchup(heap', a) = Matchup(heap, a)
        /\ pc = "loop" => /\ Len(matchups') >= Len(matchups)
                          /\ SubSeq(matchups', 1, Len(matchups)) = matchups ]_vars

\* a matchup was finalized, and the open one has since moved on: another
\* roster, more events, time on its clock
C6_Witness ==
    /\ pc = "loop"
    /\ Len(matchups) >= 1
    /\ Team1Of(current_matchup) # Team1Of(matchups[1])
    /\ Len(EventsOf(current_matchup)) >= 3
    /\ DurationOf(current_matchup) > 0

(***************************************************************************)
(* C7.  Every call on the same text returns what the first call returned,  *)
(* the starting lineups of the module are as they were at import, and each *)
(* call starts its clock at 12:00.                                         *)
(***************************************************************************)
C7_CallsAgree ==
    /\ \A n \in DOMAIN results :
          /\ results[n].raised = results[1].raised
          /\ Deref(heap, results[n].value) = Deref(heap, results[1].value)
    /\ heap.lists[team1_lineup] = Team1Start
    /\ heap.lists[team2_lineup] = Team2Start
    /\ (pc = "loop" /\ i = 0) => last_time = StartClock

\* two calls returned, each with a substitution applied and time counted
C7_Witness ==
    /\ Len(results) = 2
    /\ ~results[2].raised
    /\ Len(results[2].value) >= 2
    /\ Team1Of(results[2].value[2]) # Team1Start
    /\ DurationOf(results[2].value[1]) > 0

(***************************************************************************)
(* C8.  For a line "<clock> - X enters the game for Y" with Y in exactly   *)
(* one side, the matchup the line opens has X and not Y in that side,      *)
(* keeps that side's other players, and leaves the other side as it was.   *)
(* remove() drops one occurrence only, so a Y that the roster holds twice  *)
(* (C3) stays, and this fails.                                             *)
(***************************************************************************)
PlainSubstitution(line) ==
    /\ is_substitution(line)
    /\ Len(parts(line)) = 2
    /\ Len(prefix_pieces(line)) = 2

Swapped(before, after, entering, exiting) ==
    /\ In(entering, after)
    /\ ~In(exiting, after)
    /\ \A p \in Range(before) \ {exiting} : In(p, after)

C8_SubstitutionSwapsOnePlayer ==
    [][ \A line \in Range(lines) :
          (Processing(line) /\ PlainSubstitution(line)) =>
            LET x == entering_player(line)
                y == exiting_player(line)
                in1 == In(y, Team1Of(current_matchup))
                in2 == In(y, Team2Of(current_matchup))
                new1 == Matchup(heap', current_matchup').players.team1
                new2 == Matchup(heap', current_matchup').players.team2
            IN  /\ (in1 /\ ~in2) =>
                      /\ Swapped(Team1Of(current_matchup), new1, x, y)
                      /\ new2 = Team2Of(current_matchup)
                /\ (in2 /\ ~in1) =>
                      /\ Swapped(Team2Of(current_matchup), new2, x, y)
                      /\ new1 = Team1Of(current_matchup) ]_vars

(***************************************************************************)
(* C9.  A line with the marker whose exiting player is in neither roster   *)
(* raises nothing, leaves both rosters as they were, and is recorded in    *)
(* the matchup it opens.  A line with no " - " before the marker raises    *)
(* IndexError (line 100), so this fails.                                   *)
(***************************************************************************)
C9_UnknownExitingPlayerTolerated ==
    [][ \A line \in Range(lines) :
          ( /\ Processing(line)
            /\ is_substitution(line)
            /\ Len(parts(line)) >= 2
            /\ ~In(exiting_player(line), Team1Of(current_matchup))
            /\ ~In(exiting_player(line), Team2Of(current_matchup)) ) =>
            /\ pc' = "loop"
            /\ Matchup(heap', current_matchup').players
                   = Matchup(heap, current_matchup).players
            /\ In(line, Matchup(heap', current_matchup').events) ]_vars

(***************************************************************************)
(* C10.  No matchup of an output list has an empty events list: an open    *)
(* matchup with no events is dropped when it is finalized.                 *)
(***************************************************************************)
C10_NoEmptyEvents ==
    \A a \in Finalized : EventsOf(a) # <<>>

\* the first line was a substitution, so the initial matchup was finalized
\* with no events; the call returned the matchups the lines opened
C10_Witness ==
    /\ pc = "returned"
    /\ is_substitution(lines[1])
    /\ Len(matchups) >= 1
    /\ Team1Of(matchups[1]) # Team1Start

(***************************************************************************)
(* C11.  A timestamped line adds last - new to the duration of the open    *)
(* matchup when that is not negative and last - new + 720 otherwise, and   *)
(* sets the clock to new; 0:05 followed by 11:58 adds exactly 7 seconds.   *)
(***************************************************************************)
C11_ElapsedWithRollover ==
    [][ \A line \in Range(lines) :
          (Processing(line) /\ has_time(line)) =>
            LET new   == Seconds(convert_to_mm_ss_format(time_match(line)))
                last  == Seconds(last_time)
                added == heap'.dicts[current_matchup].matchup_duration
                            - heap.dicts[current_matchup].matchup_duration
            IN  /\ last - new >= 0 => added = last - new
                /\ last - new < 0 => added = last - new + 720
                /\ (last = 5 /\ new = 718) => added = 7
                /\ Seconds(last_time') = new ]_vars

\* 0:05 was followed by 11:58: 715 seconds to the end of the period, 7 more
\* across it
C11_Witness ==
    /\ pc = "loop"
    /\ i = 2
    /\ lines[1] = EndOfPeriod
    /\ lines[2] = NextPeriod
    /\ DurationOf(current_matchup) = 722

(***************************************************************************)
(* C16.  A bare decimal of v tenths of a second becomes the clock mm:ss    *)
(* with mm = floor(v/10 / 60) and ss = floor(v/10 mod 60), two digits      *)
(* each, truncated and never rounded: the clock is the one whole second    *)
(* count not above the value.  "4.7" becomes "00:04".  An mm:ss token is   *)
(* kept as it is.                                                          *)
(***************************************************************************)
C16_DecimalTruncated ==
    (pc = "loop" /\ i >= 1 /\ has_time(lines[i])) =>
        LET tok == time_match(lines[i])
        IN  /\ tok.k = "dec" =>
                  /\ last_time.k = "mmss"
                  /\ last_time.d = 2
                  /\ last_time.s \in 0..59
                  /\ 10 * (60 * last_time.m + last_time.s) <= tok.m
                  /\ tok.m < 10 * (60 * last_time.m + last_time.s) + 10
            /\ tok = D(1, 47) => last_time = T(2, 0, 4)
            /\ tok.k = "mmss" => last_time = tok

\* "4.7" was read and the clock stands at "00:04"
C16_Witness ==
    /\ pc = "loop"
    /\ i >= 1
    /\ lines[i] = LastSeconds
    /\ last_time = T(2, 0, 4)

(***************************************************************************)
(* C12.  The scenario of four lines yields exactly two matchups: the first *)
(* of 165 seconds with the two lines before the substitution; the second   *)
(* with the substitution line followed by the scoring line, Luka Doncic    *)
(* and not Kyrie Irving in team1.  The substitution line is recorded twice *)
(* (C1), so the second matchup has three events and this fails.            *)
(***************************************************************************)
C12_ScenarioOutput ==
    (pc = "returned" /\ lines = Scenario) =>
        /\ Len(matchups) = 2
        /\ DurationOf(matchups[1]) = 165
        /\ EventsOf(matchups[1]) = <<TipOff, Miss>>
        /\ EventsOf(matchups[2]) = <<SubOnCourt, Score>>
        /\ In(Name("Luka Doncic"), Team1Of(matchups[2]))
        /\ ~In(Name("Kyrie Irving"), Team1Of(matchups[2]))

(***************************************************************************)
(* C17.  On a substitution line with a time token the elapsed time goes to *)
(* the matchup being closed, before it is finalized; the clock is set to   *)
(* the line's time; the matchup the line opens starts at 0.                *)
(***************************************************************************)
C17_ElapsedToClosedMatchup ==
    [][ \A line \in Range(lines) :
          (Processing(line) /\ is_substitution(line) /\ has_time(line)) =>
            LET new    == Seconds(convert_to_mm_ss_format(time_match(line)))
                last   == Seconds(last_time)
                delta  == IF last - new < 0 THEN last - new + 720 ELSE last - new
                before == heap.dicts[current_matchup].matchup_duration
            IN  /\ heap'.dicts[current_matchup].matchup_duration = before + delta
                /\ EventsOf(current_matchup) # <<>> =>
                      /\ Len(matchups') = Len(matchups) + 1
                      /\ Matchup(heap', matchups'[Len(matchups')]).matchup_duration
                            = before + delta
                /\ last_time' = convert_to_mm_ss_format(time_match(line))
                /\ current_matchup' # current_matchup
                /\ heap'.dicts[current_matchup'].matchup_duration = 0 ]_vars

\* a timestamped substitution closed a matchup that got the elapsed time,
\* and the matchup it opened stands at 0
C17_Witness ==
    /\ pc = "loop"
    /\ i >= 2
    /\ is_substitution(lines[i])
    /\ has_time(lines[i])
    /\ Len(matchups) >= 1
    /\ DurationOf(matchups[Len(matchups)]) > 0
    /\ DurationOf(current_matchup) = 0

(***************************************************************************)
(* C18.  When the first line is a substitution the initial matchup is not  *)
(* emitted: the output has as many matchups as the text has substitution   *)
(* lines, and the first is the one that line opened, with the rosters the  *)
(* substitution leaves.                                                    *)
(***************************************************************************)
SubstitutionCount(ls) == Cardinality({n \in 1..Len(ls) : is_substitution(ls[n])})

Without(roster, player) ==
    LET Keep(p) == p # player
    IN  SelectSeq(roster, Keep)

C18_InitialMatchupNotEmitted ==
    (pc = "returned" /\ is_substitution(lines[1])) =>
        LET x == entering_player(lines[1])
            y == exiting_player(lines[1])
        IN  /\ Len(matchups) = SubstitutionCount(lines)
            /\ EventsOf(matchups[1])[1] = lines[1]
            /\ Team1Of(matchups[1]) =
                  IF In(y, Team1Start)
                  THEN Append(Without(Team1Start, y), x) ELSE Team1Start
            /\ Team2Of(matchups[1]) =
                  IF ~In(y, Team1Start) /\ In(y, Team2Start)
                  THEN Append(Without(Team2Start, y), x) ELSE Team2Start

\* a text of three lines that starts with a substitution and holds two
\* returned two matchups
C18_Witness ==
    /\ pc = "returned"
    /\ Len(lines) = 3
    /\ lines[1] = SubTeam2
    /\ SubstitutionCount(lines) = 2
    /\ Len(matchups) = 2

(***************************************************************************)
(* C19.  Of two substitution lines in a row, the matchup the first opens   *)
(* is emitted with duration 0 and the first line as its only event.  The   *)
(* line is recorded twice (C1), and the time to the second line's clock is *)
(* added before the matchup is finalized, so this fails.                   *)
(***************************************************************************)
\* the place in the output of the matchup that line n opened
OpenedBy(n) ==
    SubstitutionCount(SubSeq(lines, 1, n))
        + (IF is_substitution(lines[1]) THEN 0 ELSE 1)

C19_ConsecutiveSubstitutions ==
    \A n \in 1..(Len(lines) - 1) :
        ( /\ pc \in {"loop", "returned"}
          /\ i >= n + 1
          /\ is_substitution(lines[n])
          /\ is_substitution(lines[n + 1]) ) =>
            /\ Len(matchups) >= OpenedBy(n)
            /\ DurationOf(matchups[OpenedBy(n)]) = 0
            /\ EventsOf(matchups[OpenedBy(n)]) = <<lines[n]>>

(***************************************************************************)
(* C20.  The output partitions the input in order: the events of the       *)
(* output matchups, one after the other, are the input lines, each once.   *)
(* A substitution line is recorded twice (C1), so this fails.              *)
(***************************************************************************)
RECURSIVE AllEvents(_, _)
AllEvents(h, ms) ==
    IF ms = <<>> THEN <<>>
    ELSE Matchup(h, Head(ms)).events \o AllEvents(h, Tail(ms))

C20_OutputPartitionsInput ==
    pc = "returned" => AllEvents(heap, matchups) = lines

(***************************************************************************)
(* C13.  When a fetch that acquired a browser session has exited, by       *)
(* return or by an exception, the session is released.  The release sits   *)
(* in "except Exception" and not in "finally", so an exception that is no  *)
(* Exception (KeyboardInterrupt during the wait) leaves the session open,  *)
(* and this fails.                                                         *)
(***************************************************************************)
FetchExited == fpc \in {"main", "done", "escaped"}

C13_SessionReleasedOnExit ==
    (FetchExited /\ session # "none") => session = "closed"

(***************************************************************************)
(* C14.  A row that cannot be read is skipped alone: the lines added for a *)
(* table are those of all its readable rows, in order, and the fetch goes  *)
(* on.  The try encloses the whole loop, so the rows after the failing one *)
(* are lost as well, and this fails.                                       *)
(***************************************************************************)
ReadableRows(rows) ==
    LET Readable(row) == row.readable
    IN  SelectSeq(rows, Readable)

\* what a step that reads a table is to do
AllReadableRowsAdded ==
    fpc \in {"first_table", "tab_table"} =>
        /\ Len(play_by_play_data')
              = Len(play_by_play_data) + Len(ReadableRows(table'))
        /\ \A n \in 1..Len(ReadableRows(table')) :
              play_by_play_data'[Len(play_by_play_data) + n]
                  = format_row(ReadableRows(table')[n])
        /\ fpc' \in {"tabs", "click", "quit"}

C14_OnlyFailingRowSkipped == [][AllReadableRowsAdded]_vars

(***************************************************************************)
(* C15.  After a failure of the session setup, the navigation, the wait    *)
(* for the first table or a tab switch, the fetch has returned no data,    *)
(* the failure was printed, and no exception left main().  The setup runs  *)
(* outside the try and main() catches nothing, so a setup failure leaves   *)
(* main() as an exception, and this fails.                                 *)
(***************************************************************************)
C15_FailureReportedNotPropagated ==
    (FetchExited /\ failure \in {"setup", "navigation", "timeout", "tabs", "click"}) =>
        /\ fpc # "escaped"
        /\ fetched = "None"
        /\ play_by_play_data = <<>>
        /\ reported

=============================================================================
